---- MODULE Spec2Model ----
(***************************************************************************)
(* State-machine model of steam_download_tracker.py: the SteamDownloadTracker*)
(* object, its rate estimator (calculate_speed), the two per-tick stages    *)
(* (get_download_info, get_network_stats) and the polling loop              *)
(* (monitor_downloads), run in the foreground or on the daemon thread of    *)
(* run_background.                                                          *)
(*                                                                          *)
(* Representation choices                                                   *)
(*  - Python dicts are functions with a string domain; {**a, **b} is Merge. *)
(*  - None for last_check_time is the empty sequence, a time t is <<t>>.    *)
(*  - A float rate is the exact rational num/den (den > 0); the value       *)
(*    round(speed, 2) is kept as an integer number of hundredths.           *)
(*  - time.time() is the integer clock `now`.                               *)
(*  - The report stream is what the loop logs for a tick: the status line   *)
(*    of the merged dict (lines 289-308) or the error line of the loop's    *)
(*    exception handler (line 319).                                         *)
(***************************************************************************)
EXTENDS Integers, Sequences, FiniteSets, TLC

\* ---------------------------------------------------------------- bounds
MaxInterval == 2
MaxDuration == 3
MaxMB == 2
MaxClock == 4
MaxCalls == 3
MaxRuns == 2
StartTime == 1

\* ------------------------------------------------------ program constants
BytesPerMB == 1048576
SimBytesPerMinute == 50000000
SecondsPerMinute == 60

VARIABLES
    check_interval,   \* self.check_interval
    total_duration,   \* self.total_duration
    steam_path,       \* self.steam_path: "None" or a path
    last_bytes,       \* self.last_bytes
    last_check_time,  \* self.last_check_time: <<>> is None, <<t>> a time
    mode,             \* "foreground" (monitor_downloads) or "background"
    hasPsutil,        \* environment: `import psutil` succeeds
    fs,               \* environment: platform, registry value and the
                      \* candidate directories that exist
    located,          \* direct calls: value find_steam_path returned
    disk,             \* direct calls: the root and the disk state of the
                      \* last get_download_info call
    extracted,        \* direct calls: dict get_download_info returned
    now,              \* environment: the value time.time() returns
    pc,               \* position of the monitoring call
    check_count,      \* local check_count of monitor_downloads
    max_checks,       \* local max_checks of monitor_downloads
    download_info,    \* local download_info of the current tick
    network_stats,    \* local network_stats of the current tick
    info,             \* local info of the current tick (the merged dict)
    report,           \* last line reported for a tick: [tick, state]
    emitted,          \* number of lines reported for ticks in this run
    failed,           \* stages of the current tick that hit an exception
    had_failure,      \* some tick of this run hit an exception
    interrupted,      \* where a KeyboardInterrupt was raised, or "no"
    artifact_missing, \* the current tick found no config directory or no
                      \* libraryfolders.vdf
    exc,              \* exception that left monitor_downloads, or "None"
    runs,             \* number of calls of monitor_downloads on the object
    speed,            \* value returned by the last calculate_speed call
    prev,             \* direct calls: retained sample before the last call
    arg,              \* direct calls: byte count and time of the last call
    calls             \* direct calls: number of calls so far

vars == <<check_interval, total_duration, steam_path, last_bytes,
          last_check_time, mode, hasPsutil, fs, located, disk, extracted, now, pc,
          check_count,
          max_checks, download_info, network_stats, info, report, emitted,
          failed, had_failure, interrupted, artifact_missing, exc, runs, speed,
          prev, arg, calls>>

trackerVars == <<check_interval, total_duration>>
envVars == <<mode, hasPsutil, fs, located, disk, extracted>>
loopVars == <<steam_path, pc, check_count, max_checks, download_info,
              network_stats, info, report, emitted, failed, had_failure,
              interrupted, artifact_missing, exc, runs>>
sampleVars == <<last_bytes, last_check_time, speed>>
historyVars == <<prev, arg, calls>>
estimatorVars == <<sampleVars, historyVars>>

\* ------------------------------------------------------------ arithmetic
\* a division that rounds up instead of down
PyFloorDiv_RoundsUp(a, b) ==
    IF b > 0 THEN (a + b - 1) \div b ELSE (0 - a - b - 1) \div (0 - b)

\* Python's a // b on integers (floor division), b # 0.
PyFloorDiv(a, b) == IF b > 0 THEN a \div b ELSE (0 - a) \div (0 - b)

\* Python's int(a / b), b # 0: the quotient truncated toward zero.
Abs(a) == IF a < 0 THEN 0 - a ELSE a
IntTrunc(a, b) ==
    IF (a < 0) = (b < 0) THEN Abs(a) \div Abs(b) ELSE 0 - (Abs(a) \div Abs(b))

\* A rate as an exact rational, and the literal 0.0.
Rate(n, d, byDivision) == [num |-> n, den |-> d, divided |-> byDivision]
ZeroRate == Rate(0, 1, FALSE)
RateEq(r, n, d) == r.num * d = n * r.den
RateNeg(r) == r.num < 0
RateIsZero(r) == r.num = 0

\* round(speed_mbps, 2), as an integer number of hundredths (ties to even).
Round2(r) ==
    LET n == 100 * r.num
        q == n \div r.den
        rem == n - q * r.den
    IN  IF 2 * rem < r.den THEN q
        ELSE IF 2 * rem > r.den THEN q + 1
        ELSE IF q % 2 = 0 THEN q ELSE q + 1

\* {**b, **a}: the left operand wins
Merge_LeftWins(a, b) ==
    [k \in (DOMAIN a) \cup (DOMAIN b) |-> IF k \in DOMAIN a THEN a[k] ELSE b[k]]

\* {**a, **b}
Merge(a, b) ==
    [k \in (DOMAIN a) \cup (DOMAIN b) |-> IF k \in DOMAIN b THEN b[k] ELSE a[k]]

Get(d, k, default) == IF k \in DOMAIN d THEN d[k] ELSE default

\* --------------------------------------------------------- rate estimator
NoneTime == <<>>

\* the test of line 187 without `self.last_bytes == 0`
NoPreviousSample_TimeOnly(lb, lt) == lt = NoneTime \/ lt[1] = 0

\* `self.last_bytes == 0 or not self.last_check_time` (line 187)
NoPreviousSample(lb, lt) == lb = 0 \/ lt = NoneTime \/ lt[1] = 0

\* the guard of line 196 written as `time_diff != 0`
SpeedMbps_NonZeroGuard(bytes_diff, time_diff) ==
    IF time_diff # 0
    THEN Rate(bytes_diff, time_diff * BytesPerMB, TRUE)
    ELSE ZeroRate

\* lines 196-200: the rate in MB/s from the two differences
SpeedMbps(bytes_diff, time_diff) ==
    IF time_diff > 0
    THEN Rate(bytes_diff, time_diff * BytesPerMB, TRUE)
    ELSE ZeroRate

\* the sample retained by a call (lines 188-189 and 203-204)
StoredSample(current_bytes, t) == [bytes |-> current_bytes, time |-> <<t>>]

\* calculate_speed without the first-call branch of lines 187-190, the
\* missing time read as 0
CalculateSpeed_NoFirstCall(lb, lt, current_bytes, t) ==
    [sample |-> StoredSample(current_bytes, t),
     ret |-> SpeedMbps(current_bytes - lb,
                       t - (IF lt = NoneTime THEN 0 ELSE lt[1]))]

\* calculate_speed that returns from the clamped path (time_diff <= 0)
\* before the store of lines 203-204
CalculateSpeed_ClampSkipsStore(lb, lt, current_bytes, t) ==
    IF NoPreviousSample(lb, lt)
    THEN [sample |-> StoredSample(current_bytes, t), ret |-> ZeroRate]
    ELSE IF t - lt[1] > 0
         THEN [sample |-> StoredSample(current_bytes, t),
               ret |-> SpeedMbps(current_bytes - lb, t - lt[1])]
         ELSE [sample |-> [bytes |-> lb, time |-> lt], ret |-> ZeroRate]

\* calculate_speed(current_bytes) called when time.time() = t
CalculateSpeed(lb, lt, current_bytes, t) ==
    IF NoPreviousSample(lb, lt)
    THEN [sample |-> StoredSample(current_bytes, t), ret |-> ZeroRate]
    ELSE [sample |-> StoredSample(current_bytes, t),
          ret |-> SpeedMbps(current_bytes - lb, t - lt[1])]

\* the effect of one call on the object, and the value it returns
CallCalculateSpeed(current_bytes, t) ==
    LET r == CalculateSpeed(last_bytes, last_check_time, current_bytes, t)
    IN  /\ last_bytes' = r.sample.bytes
        /\ last_check_time' = r.sample.time
        /\ speed' = r.ret

\* --------------------------------------------------------------- schedule
Intervals == (0 - 1) .. MaxInterval
Durations == (0 - 2) .. MaxDuration
ByteCounts == {k * BytesPerMB : k \in 0 .. MaxMB}
ValidSchedule == check_interval > 0 /\ total_duration >= 0

\* ----------------------------------------------------- find_steam_path
\* The candidate directories in the order the code probes them (lines
\* 66-70, 78-82, 89-92); "~" is the expanded home directory and the
\* Windows separators are written "/".
WindowsPaths == <<"C:/Program Files (x86)/Steam", "C:/Program Files/Steam",
                  "~/Steam">>
LinuxPaths == <<"~/.steam/steam", "~/.local/share/Steam", "/usr/share/steam">>
MacPaths == <<"~/Library/Application Support/Steam", "/Applications/Steam.app">>

Range(seq) == {seq[i] : i \in DOMAIN seq}

\* the registry read of lines 59-61: "missing" is a WindowsError
RegistryValues == {"missing", "", "D:/Games/Steam"}

\* the environments find_steam_path can run in
Environments ==
    {e \in [platform : {"windows", "posix"}, registry : RegistryValues,
            existing : SUBSET (Range(WindowsPaths) \cup Range(LinuxPaths)
                               \cup Range(MacPaths))] :
        /\ (e.platform = "windows" => e.existing \subseteq Range(WindowsPaths))
        /\ (e.platform = "posix" =>
                /\ e.registry = "missing"
                /\ e.existing \subseteq Range(LinuxPaths) \cup Range(MacPaths))}

\* the environments the polling loop is explored in
LoopEnvironments ==
    {e \in Environments :
        /\ e.platform = "posix"
        /\ e.existing \in {{}, {"~/.local/share/Steam"}}}

\* a probing loop that keeps the last existing candidate
FirstExisting_Last(paths, existing) ==
    IF \E i \in DOMAIN paths : paths[i] \in existing
    THEN paths[CHOOSE i \in DOMAIN paths :
                 /\ paths[i] \in existing
                 /\ \A j \in DOMAIN paths : paths[j] \in existing => j <= i]
    ELSE "None"

\* `for path in paths: if os.path.exists(path): return path`
FirstExisting(paths, existing) ==
    IF \E i \in DOMAIN paths : paths[i] \in existing
    THEN paths[CHOOSE i \in DOMAIN paths :
                 /\ paths[i] \in existing
                 /\ \A j \in DOMAIN paths : paths[j] \in existing => i <= j]
    ELSE "None"

\* find_steam_path (lines 53-103) in environment e
FindSteamPathIn(e) ==
    IF e.platform = "windows"
    THEN IF e.registry # "missing"
         THEN e.registry
         ELSE FirstExisting(WindowsPaths, e.existing)
    ELSE IF FirstExisting(LinuxPaths, e.existing) # "None"
         THEN FirstExisting(LinuxPaths, e.existing)
         ELSE FirstExisting(MacPaths, e.existing)

\* find_steam_path() as the loop calls it (line 264)
FindSteamPath == FindSteamPathIn(fs)

\* `not self.steam_path` (lines 113, 265)
NoRoot(path) == path = "None" \/ path = ""

\* __init__ (lines 22-35) and the environment the object is created in
InitTracker(environments) ==
    /\ check_interval \in Intervals
    /\ total_duration \in Durations
    /\ steam_path = "None"
    /\ last_bytes = 0
    /\ last_check_time = NoneTime
    /\ mode \in {"foreground", "background"}
    /\ hasPsutil \in BOOLEAN
    /\ fs \in environments
    /\ located = "unset"
    /\ disk = <<>>
    /\ extracted = <<>>
    /\ now = StartTime
    /\ pc = "idle"
    /\ check_count = 0
    /\ max_checks = 0
    /\ download_info = <<>>
    /\ network_stats = <<>>
    /\ info = <<>>
    /\ report = [tick |-> 0, state |-> "none"]
    /\ emitted = 0
    /\ failed = {}
    /\ had_failure = FALSE
    /\ interrupted = "no"
    /\ artifact_missing = FALSE
    /\ exc = "None"
    /\ runs = 0
    /\ speed = ZeroRate
    /\ prev = [bytes |-> 0, time |-> NoneTime]
    /\ arg = [bytes |-> 0, time |-> 0]
    /\ calls = 0

Init == InitTracker(LoopEnvironments)

\* ---------------------------------------------------- get_download_info
AppIds == {"730", "4242"}
PopularGames == [a \in {"730", "570"} |->
                    IF a = "730" THEN "Counter-Strike 2" ELSE "Dota 2"]

\* get_game_name (lines 150-183)
GetGameName(app_id, appcache) ==
    IF appcache
    THEN [kind |-> "appid_label", text |-> app_id]
    ELSE IF app_id \in DOMAIN PopularGames
         THEN [kind |-> "title", text |-> PopularGames[app_id]]
         ELSE [kind |-> "unknown_appid", text |-> app_id]

\* What one tick finds on disk under the root.
\*   config: the config directory exists
\*   vdf: libraryfolders.vdf exists; markers: the markers in its content
\*   dlDir: steamapps/downloading exists; games: its listing
\*   appcache: appcache holds a cache file
\*   raises: the I/O call that raises, if any
DiskStates ==
    {d \in [config : BOOLEAN, vdf : BOOLEAN,
            markers : SUBSET {"downloading", "paused"},
            dlDir : BOOLEAN, games : {<<>>} \cup {<<a>> : a \in AppIds},
            appcache : BOOLEAN, raises : {"none", "open", "listdir"}] :
        /\ (~d.config => ~d.vdf /\ ~d.dlDir /\ ~d.appcache)
        /\ (~d.vdf => d.markers = {})
        /\ (~d.dlDir => d.games = <<>>)
        /\ (d.games = <<>> => ~d.appcache)
        /\ (d.raises = "open" => d.vdf)
        /\ (d.raises = "listdir" => d.dlDir /\ "downloading" \notin d.markers)}

ErrorInfo == [status |-> "error", error |-> "exception"]

\* the artifact get_download_info reads is not there: no config directory
\* (line 118) or no libraryfolders.vdf (line 123)
ArtifactMissing(d) == ~d.config \/ ~d.vdf

\* the content of libraryfolders.vdf was read (lines 124-125)
ContentRead(path, d) ==
    ~NoRoot(path) /\ d.config /\ d.vdf /\ d.raises # "open"

\* get_download_info with a pause test placed before the test of line 128
GetDownloadInfo_PauseFirst(path, d) ==
    IF NoRoot(path) THEN [status |-> "steam_not_found"]
    ELSE IF ~d.config THEN [status |-> "no_config"]
    ELSE IF d.vdf /\ d.raises = "open" THEN ErrorInfo
    ELSE IF d.vdf /\ "paused" \in d.markers THEN [status |-> "paused"]
    ELSE IF d.vdf /\ "downloading" \in d.markers
         THEN [status |-> "downloading",
               game |-> [kind |-> "literal", text |-> "Unknown Game"]]
    ELSE IF d.dlDir /\ d.raises = "listdir" THEN ErrorInfo
    ELSE IF d.dlDir /\ d.games # <<>>
         THEN [status |-> "downloading",
               game |-> GetGameName(d.games[1], d.appcache),
               app_id |-> d.games[1]]
    ELSE [status |-> "no_downloads"]

\* get_download_info (lines 105-148)
GetDownloadInfo(path, d) ==
    IF NoRoot(path) THEN [status |-> "steam_not_found"]
    ELSE IF ~d.config THEN [status |-> "no_config"]
    ELSE IF d.vdf /\ d.raises = "open" THEN ErrorInfo
    ELSE IF d.vdf /\ "downloading" \in d.markers
         THEN [status |-> "downloading",
               game |-> [kind |-> "literal", text |-> "Unknown Game"]]
    ELSE IF d.dlDir /\ d.raises = "listdir" THEN ErrorInfo
    ELSE IF d.dlDir /\ d.games # <<>>
         THEN [status |-> "downloading",
               game |-> GetGameName(d.games[1], d.appcache),
               app_id |-> d.games[1]]
    ELSE [status |-> "no_downloads"]

\* ---------------------------------------------------- get_network_stats
RandomStatuses == {"downloading", "paused", "completed"}
status_cycle == <<"downloading", "downloading", "downloading", "paused",
                  "completed">>

NetworkError == [speed_mbps |-> 0, total_bytes |-> 0, status |-> "error"]

\* the dict returned at lines 228-232 and 246-250
NetworkResult(rate, current_bytes, status) ==
    [speed_mbps |-> Round2(rate), total_bytes |-> current_bytes,
     status |-> status]

\* line 239: last_bytes + int(50_000_000 * (check_interval / 60))
SimulatedBytes ==
    last_bytes + IntTrunc(SimBytesPerMinute * check_interval, SecondsPerMinute)

\* lines 243-244: status_cycle[int(time.time() / check_interval) % 5]
SimulatedStatus ==
    status_cycle[(IntTrunc(now, check_interval) % Len(status_cycle)) + 1]

\* ------------------------------------------------------ monitor_downloads
\* positions of the running call; InTry are those inside the try block of
\* lines 274-313
Running == {"loop", "download", "network", "report", "sleep", "handler_sleep"}
InTry_SleepOutside == {"download", "network", "report"}
InTry == {"download", "network", "report", "sleep"}
OutsideTry == Running \ InTry
Returned == {"Completed", "Cancelled", "NotFound"}
Terminal == Returned \cup {"Raised", "Killed"}

\* a stage of the current tick hits an exception
StageFails(stage) ==
    /\ failed' = failed \cup {stage}
    /\ had_failure' = TRUE

StageSucceeds == UNCHANGED <<failed, had_failure>>

\* an entry that keeps the count of the previous call
MonitorEntry_KeepsCount ==
    /\ runs' = runs + 1
    /\ steam_path' = FindSteamPath
    /\ check_count' = check_count
    /\ emitted' = emitted
    /\ failed' = {}
    /\ had_failure' = FALSE
    /\ interrupted' = "no"
    /\ artifact_missing' = FALSE
    /\ report' = [tick |-> 0, state |-> "none"]
    /\ download_info' = <<>>
    /\ network_stats' = <<>>
    /\ info' = <<>>
    /\ IF NoRoot(FindSteamPath)
       THEN pc' = "NotFound" /\ exc' = "None" /\ max_checks' = 0
       ELSE IF check_interval = 0
            THEN pc' = "Raised" /\ exc' = "ZeroDivisionError"
                 /\ max_checks' = 0
            ELSE /\ pc' = "loop"
                 /\ exc' = "None"
                 /\ max_checks' = PyFloorDiv(total_duration, check_interval)
    /\ UNCHANGED <<trackerVars, envVars, estimatorVars, now>>

\* an entry without the early return of lines 265-267
MonitorEntry_NoEarlyReturn ==
    /\ runs' = runs + 1
    /\ steam_path' = FindSteamPath
    /\ check_count' = 0
    /\ emitted' = 0
    /\ failed' = {}
    /\ had_failure' = FALSE
    /\ interrupted' = "no"
    /\ artifact_missing' = FALSE
    /\ report' = [tick |-> 0, state |-> "none"]
    /\ download_info' = <<>>
    /\ network_stats' = <<>>
    /\ info' = <<>>
    /\ IF FALSE
       THEN pc' = "NotFound" /\ exc' = "None" /\ max_checks' = 0
       ELSE IF check_interval = 0
            THEN pc' = "Raised" /\ exc' = "ZeroDivisionError"
                 /\ max_checks' = 0
            ELSE /\ pc' = "loop"
                 /\ exc' = "None"
                 /\ max_checks' = PyFloorDiv(total_duration, check_interval)
    /\ UNCHANGED <<trackerVars, envVars, estimatorVars, now>>

\* lines 257-271: resolve the root, then compute max_checks
MonitorEntry ==
    /\ runs' = runs + 1
    /\ steam_path' = FindSteamPath
    /\ check_count' = 0
    /\ emitted' = 0
    /\ failed' = {}
    /\ had_failure' = FALSE
    /\ interrupted' = "no"
    /\ artifact_missing' = FALSE
    /\ report' = [tick |-> 0, state |-> "none"]
    /\ download_info' = <<>>
    /\ network_stats' = <<>>
    /\ info' = <<>>
    /\ IF NoRoot(FindSteamPath)
       THEN pc' = "NotFound" /\ exc' = "None" /\ max_checks' = 0
       ELSE IF check_interval = 0
            THEN pc' = "Raised" /\ exc' = "ZeroDivisionError"
                 /\ max_checks' = 0
            ELSE /\ pc' = "loop"
                 /\ exc' = "None"
                 /\ max_checks' = PyFloorDiv(total_duration, check_interval)
    /\ UNCHANGED <<trackerVars, envVars, estimatorVars, now>>

\* monitor_downloads() or run_background() called on the new object
Start == pc = "idle" /\ MonitorEntry

\* monitor_downloads() called again after it returned
CallAgain ==
    /\ pc \in Returned
    /\ mode = "foreground"
    /\ runs < MaxRuns
    /\ MonitorEntry

\* line 273 true, lines 275-279
TickBegin ==
    /\ pc = "loop"
    /\ check_count < max_checks
    /\ check_count' = check_count + 1
    /\ pc' = "download"
    /\ failed' = {}
    /\ download_info' = <<>>
    /\ network_stats' = <<>>
    /\ info' = <<>>
    /\ artifact_missing' = FALSE
    /\ UNCHANGED <<trackerVars, envVars, estimatorVars, now, steam_path,
                   max_checks, report, emitted, had_failure, interrupted, exc,
                   runs>>

\* line 273 false, lines 322-326
LoopExit ==
    /\ pc = "loop"
    /\ ~(check_count < max_checks)
    /\ pc' = "Completed"
    /\ UNCHANGED <<trackerVars, envVars, estimatorVars, now, steam_path,
                   check_count, max_checks, download_info, network_stats,
                   info, report, emitted, failed, had_failure, interrupted,
                   artifact_missing,
                   exc, runs>>

\* a download stage that forgets the root when its config directory or
\* libraryfolders.vdf is missing
DownloadStage_DropsRoot ==
    /\ pc = "download"
    /\ \E d \in DiskStates :
        /\ download_info' = GetDownloadInfo(steam_path, d)
        /\ artifact_missing' = ArtifactMissing(d)
        /\ steam_path' = IF ArtifactMissing(d) THEN "None" ELSE steam_path
        /\ IF GetDownloadInfo(steam_path, d).status = "error"
           THEN StageFails("download") ELSE StageSucceeds
    /\ pc' = "network"
    /\ UNCHANGED <<trackerVars, envVars, estimatorVars, now,
                   check_count, max_checks, network_stats, info, report,
                   emitted, interrupted, exc, runs>>

\* line 282
DownloadStage ==
    /\ pc = "download"
    /\ \E d \in DiskStates :
        /\ download_info' = GetDownloadInfo(steam_path, d)
        /\ artifact_missing' = ArtifactMissing(d)
        /\ IF GetDownloadInfo(steam_path, d).status = "error"
           THEN StageFails("download") ELSE StageSucceeds
    /\ pc' = "network"
    /\ UNCHANGED <<trackerVars, envVars, estimatorVars, now, steam_path,
                   check_count, max_checks, network_stats, info, report,
                   emitted, interrupted, exc, runs>>

\* line 283 with psutil: lines 214-232, or the handler of lines 251-253
NetworkStagePsutil ==
    /\ pc = "network"
    /\ hasPsutil
    /\ \/ /\ network_stats' = NetworkError
          /\ StageFails("network")
          /\ UNCHANGED sampleVars
       \/ \E b \in ByteCounts, s \in RandomStatuses :
            /\ CallCalculateSpeed(b, now)
            /\ network_stats' = NetworkResult(speed', b, s)
            /\ StageSucceeds
    /\ pc' = "report"
    /\ UNCHANGED <<trackerVars, envVars, historyVars, now, steam_path,
                   check_count,
                   max_checks, download_info, info, report, emitted,
                   interrupted, artifact_missing, exc, runs>>

\* line 283 without psutil: the ImportError handler, lines 234-250
NetworkStageSimulated ==
    /\ pc = "network"
    /\ ~hasPsutil
    /\ CallCalculateSpeed(SimulatedBytes, now)
    /\ network_stats' = NetworkResult(speed', SimulatedBytes, SimulatedStatus)
    /\ pc' = "report"
    /\ UNCHANGED <<trackerVars, envVars, historyVars, now, steam_path,
                   check_count,
                   max_checks, download_info, info, report, emitted, failed,
                   had_failure, interrupted, artifact_missing, exc, runs>>

\* line 286
MergedInfo == Merge(download_info, network_stats)

\* lines 286-311: merge, log the status line, decide whether to sleep
Report ==
    /\ pc = "report"
    /\ info' = MergedInfo
    /\ report' = [tick |-> check_count,
                  state |-> Get(MergedInfo, "status", "None")]
    /\ emitted' = emitted + 1
    /\ pc' = IF check_count < max_checks THEN "sleep" ELSE "loop"
    /\ UNCHANGED <<trackerVars, envVars, estimatorVars, now, steam_path,
                   check_count, max_checks, download_info, network_stats,
                   failed, had_failure, interrupted, artifact_missing, exc,
                   runs>>

\* a handler that logs the error line and leaves the loop
HandleException_LeavesLoop ==
    /\ pc' = "Raised"
    /\ report' = [tick |-> check_count, state |-> "error"]
    /\ emitted' = emitted + 1
    /\ StageFails("body")
    /\ UNCHANGED <<trackerVars, envVars, estimatorVars, now, steam_path,
                   check_count, max_checks, download_info, network_stats,
                   info, interrupted, artifact_missing, exc, runs>>

\* lines 318-319: the loop's handler logs the error line of the tick
HandleException ==
    /\ pc' = "handler_sleep"
    /\ report' = [tick |-> check_count, state |-> "error"]
    /\ emitted' = emitted + 1
    /\ StageFails("body")
    /\ UNCHANGED <<trackerVars, envVars, estimatorVars, now, steam_path,
                   check_count, max_checks, download_info, network_stats,
                   info, interrupted, artifact_missing, exc, runs>>

\* an Exception leaves lines 275-308 (raised outside the stages' own
\* handlers, or inside one of them)
TickRaises ==
    /\ pc \in {"download", "network", "report"}
    /\ HandleException

\* line 313: time.sleep(check_interval); a negative length is a ValueError
Sleep ==
    /\ pc = "sleep"
    /\ IF check_interval > 0
       THEN /\ now' = now + check_interval
            /\ pc' = "loop"
            /\ UNCHANGED <<trackerVars, envVars, estimatorVars, steam_path,
                           check_count, max_checks, download_info,
                           network_stats, info, report, emitted, failed,
                           had_failure, interrupted, artifact_missing, exc,
                           runs>>
       ELSE HandleException

\* line 320: time.sleep(check_interval) inside the handler
HandlerSleep ==
    /\ pc = "handler_sleep"
    /\ IF check_interval > 0
       THEN now' = now + check_interval /\ pc' = "loop" /\ exc' = "None"
       ELSE now' = now /\ pc' = "Raised" /\ exc' = "ValueError"
    /\ UNCHANGED <<trackerVars, envVars, estimatorVars, steam_path,
                   check_count, max_checks, download_info, network_stats,
                   info, report, emitted, failed, had_failure, interrupted,
                   artifact_missing,
                   runs>>

loopFrame == <<trackerVars, envVars, estimatorVars, now, steam_path,
               check_count, max_checks, download_info, network_stats, info,
               report, emitted, failed, had_failure, artifact_missing, runs>>

\* KeyboardInterrupt inside the try block: lines 315-317, then 322-326
InterruptInTry ==
    /\ mode = "foreground"
    /\ pc \in InTry
    /\ pc' = "Cancelled"
    /\ interrupted' = pc
    /\ exc' = "None"
    /\ UNCHANGED loopFrame

\* KeyboardInterrupt at line 273 or inside the handler (line 320)
InterruptOutsideTry ==
    /\ mode = "foreground"
    /\ pc \in OutsideTry
    /\ pc' = "Raised"
    /\ interrupted' = pc
    /\ exc' = "KeyboardInterrupt"
    /\ UNCHANGED loopFrame

\* run_background, lines 336-342: the main thread gets the
\* KeyboardInterrupt and exits; the daemon thread dies with the process
InterruptBackground ==
    /\ mode = "background"
    /\ pc \in Running
    /\ pc' = "Killed"
    /\ interrupted' = "main_thread"
    /\ exc' = "None"
    /\ UNCHANGED loopFrame

Next ==
    \/ Start
    \/ CallAgain
    \/ TickBegin
    \/ LoopExit
    \/ DownloadStage
    \/ NetworkStagePsutil
    \/ NetworkStageSimulated
    \/ Report
    \/ TickRaises
    \/ Sleep
    \/ HandlerSleep
    \/ InterruptInTry
    \/ InterruptOutsideTry
    \/ InterruptBackground

Spec == Init /\ [][Next]_vars

\* ------------------------------------------- the estimator called directly
\* calculate_speed(b) called on the object when the clock reads t
Observe ==
    \E b \in ByteCounts, t \in 1 .. MaxClock :
        /\ now' = t
        /\ CallCalculateSpeed(b, t)
        /\ prev' = [bytes |-> last_bytes, time |-> last_check_time]
        /\ arg' = [bytes |-> b, time |-> t]
        /\ calls' = IF calls < MaxCalls THEN calls + 1 ELSE calls
        /\ UNCHANGED <<trackerVars, envVars, loopVars>>

NextEstimator == Observe

SpecEstimator == Init /\ [][NextEstimator]_vars

\* ----------------------------------- get_download_info called directly
\* get_download_info() called on the object, before or after the root was
\* resolved
CallGetDownloadInfo ==
    /\ \E d \in DiskStates :
        /\ disk' = [root |-> steam_path, found |-> d]
        /\ extracted' = GetDownloadInfo(steam_path, d)
    /\ UNCHANGED <<trackerVars, mode, hasPsutil, fs, located, loopVars,
                   estimatorVars, now>>

NextDownloadInfo == Start \/ CallGetDownloadInfo

SpecDownloadInfo == Init /\ [][NextDownloadInfo]_vars

\* ------------------------------------- find_steam_path called directly
\* find_steam_path() called on the object
Locate ==
    /\ located' = FindSteamPath
    /\ UNCHANGED <<trackerVars, mode, hasPsutil, fs, disk, extracted,
                   loopVars, estimatorVars, now>>

\* a candidate directory is created or removed between two calls
DiskChanges ==
    /\ \E e \in Environments :
        /\ e.platform = fs.platform
        /\ e.registry = fs.registry
        /\ \E p \in e.existing \cup fs.existing :
             (e.existing \ {p}) = (fs.existing \ {p}) /\ e.existing # fs.existing
        /\ fs' = e
    /\ located' = "unset"
    /\ UNCHANGED <<trackerVars, mode, hasPsutil, disk, extracted, loopVars,
                   estimatorVars, now>>

InitLocator ==
    /\ InitTracker(Environments)
    /\ mode = "foreground"
    /\ hasPsutil

NextLocator == Locate \/ DiskChanges

SpecLocator == InitLocator /\ [][NextLocator]_vars

\* ======================================================================
\* Properties
\* ======================================================================
\* a tick boundary: every started tick of the run has been reported
AtTickBoundary == pc \in {"loop", "sleep", "Completed"}

\* C1: for a schedule with interval > 0 and duration >= 0 and a resolved
\* root, max_checks is floor(total_duration / check_interval), check_count
\* never exceeds it, every tick has produced exactly one report, a run that
\* was not cancelled ends Completed after exactly max_checks ticks, and
\* nothing runs after that terminal event within the call.
C1_ExactlyMaxChecksTicks ==
    /\ [](ValidSchedule /\ pc \in Running \cup {"Completed", "Cancelled"} =>
            /\ max_checks * check_interval <= total_duration
            /\ total_duration < (max_checks + 1) * check_interval
            /\ check_count <= max_checks
            /\ (AtTickBoundary => emitted = check_count)
            /\ (pc = "Completed" => check_count = max_checks))
    /\ [][ValidSchedule /\ pc = "loop" /\ check_count = max_checks
            => pc' \in {"Completed", "Raised", "Killed"}]_vars
    /\ [][pc = "Completed" /\ runs' = runs
            => UNCHANGED <<pc, check_count, emitted, report>>]_vars

C1_Witness ==
    /\ pc = "Completed"
    /\ check_interval = 2
    /\ total_duration = 3
    /\ check_count = 1
    /\ emitted = 1

\* C2: with an invalid schedule (check_interval <= 0 or total_duration < 0)
\* no tick runs, nothing is reported, and the call never ends as a normal
\* completed run.
C2_InvalidScheduleFailsFast ==
    ~ValidSchedule => check_count = 0 /\ emitted = 0 /\ pc # "Completed"

\* C3: a KeyboardInterrupt raised during the sleep of line 313 after tick k
\* (1 <= k < max_checks) ends the call Cancelled with exactly k ticks
\* reported; the sleep is not finished and tick k+1 does not run.
C3_CancelDuringSleep ==
    /\ [](pc \in Terminal /\ interrupted = "sleep" =>
            /\ pc = "Cancelled"
            /\ 1 <= check_count
            /\ check_count < max_checks
            /\ emitted = check_count
            /\ report.tick = check_count)
    /\ [][pc = "sleep" /\ mode = "foreground" /\ pc' \in Terminal
            => /\ interrupted' = "sleep"
               /\ UNCHANGED <<now, check_count, emitted, report>>]_vars

C3_Witness ==
    /\ pc = "Cancelled"
    /\ interrupted = "sleep"
    /\ check_count = 2
    /\ max_checks = 3
    /\ emitted = 2

\* C4: a step in which a stage or the body of a tick hits an exception
\* leaves the loop running with the tick counted once; the tick index only
\* ever advances by one, and with a valid schedule a run that is not
\* cancelled still completes with check_count = max_checks, failed ticks
\* included.
C4_FailedTickDoesNotStopLoop ==
    /\ [][failed' # failed /\ failed' # {}
            => pc' \in Running /\ check_count' = check_count]_vars
    /\ [][check_count' # check_count /\ runs' = runs
            => check_count' = check_count + 1 /\ failed' = {}]_vars
    /\ [](had_failure => check_count >= 1)
    /\ [](ValidSchedule /\ pc = "Completed" => check_count = max_checks)

C4_Witness ==
    /\ pc = "Completed"
    /\ max_checks = 3
    /\ check_count = 3
    /\ had_failure
    /\ failed = {}

\* C5: when a stage of the tick or its body hit an exception, the line
\* reported for that tick has state error.
C5_FailedTickReportsError ==
    (check_count > 0 /\ report.tick = check_count /\ failed # {})
        => report.state = "error"

\* C6: the first calculate_speed call on a fresh tracker returns 0 and
\* retains its byte count and the time of the call.
C6_FirstCallReturnsZero ==
    calls = 1 =>
        /\ RateIsZero(speed)
        /\ last_bytes = arg.bytes
        /\ last_check_time = <<arg.time>>

C6_Witness ==
    /\ calls = 1
    /\ arg.bytes = 2 * BytesPerMB
    /\ last_bytes = 2 * BytesPerMB

\* the last call followed an earlier one, whose sample is prev
SecondOrLater == calls >= 2 /\ prev.time # NoneTime

\* C7: a call observe(b2, t2) that follows observe(b1, t1) with t2 > t1 and
\* b2 >= b1 returns (b2 - b1) / (t2 - t1), in MB/s, for every b1 >= 0.
C7_RateOfConsecutiveCalls ==
    (SecondOrLater /\ arg.time > prev.time[1] /\ arg.bytes >= prev.bytes)
        => RateEq(speed, arg.bytes - prev.bytes,
                  (arg.time - prev.time[1]) * BytesPerMB)

\* C8: no rate is negative: neither the value calculate_speed returns nor
\* the speed_mbps of the tick's network_stats and merged info.
C8_RateNeverNegative ==
    /\ ~RateNeg(speed)
    /\ Get(network_stats, "speed_mbps", 0) >= 0
    /\ Get(info, "speed_mbps", 0) >= 0

\* C9: a call made when the elapsed time since the retained sample is <= 0
\* returns 0 without dividing, whatever the two byte counts are.
C9_NoElapsedTimeGivesZero ==
    (SecondOrLater /\ arg.time <= prev.time[1])
        => RateIsZero(speed) /\ ~speed.divided

C9_Witness ==
    /\ SecondOrLater
    /\ prev.bytes = BytesPerMB
    /\ arg.bytes = 2 * BytesPerMB
    /\ arg.time < prev.time[1]

\* C10 as stated: once the call reached a terminal state no new run of
\* ticks starts on the same object.
C10_TerminalIsFinal ==
    [][(pc \in Terminal) => (pc' \in Terminal)]_vars

\* C10 as amended: a terminal state ends the current call only; nothing
\* changes until monitor_downloads is called again, and that call starts a
\* new run with check_count and the report count reset to 0, max_checks
\* recomputed and the retained sample kept.
C10_TerminalEndsTheCallOnly ==
    [][(pc \in Terminal) =>
        /\ pc \in Returned
        /\ runs' = runs + 1
        /\ check_count' = 0
        /\ emitted' = 0
        /\ pc' \in {"loop", "NotFound", "Raised"}
        /\ (pc' = "loop" =>
                max_checks' = PyFloorDiv(total_duration, check_interval))
        /\ UNCHANGED <<last_bytes, last_check_time, check_interval,
                       total_duration>>]_vars

C10_Witness ==
    /\ runs = 2
    /\ pc = "Completed"
    /\ check_count = 2
    /\ max_checks = 2
    /\ emitted = 2

\* C11: when find_steam_path gives no root, the call ends at once in the
\* not-found state: no tick, no report, no sleep, no exception, and the
\* rate estimator keeps the state __init__ gave it.
C11_NoRootEndsAtOnce ==
    (NoRoot(FindSteamPath) /\ pc # "idle") =>
        /\ pc = "NotFound"
        /\ NoRoot(steam_path)
        /\ check_count = 0
        /\ emitted = 0
        /\ report.tick = 0
        /\ exc = "None"
        /\ now = StartTime
        /\ last_bytes = 0
        /\ last_check_time = NoneTime

C11_Witness ==
    /\ pc = "NotFound"
    /\ runs = 1
    /\ check_interval = 1
    /\ total_duration = 3
    /\ emitted = 0

\* how the candidates are classified
UserPaths == {"~/Steam", "~/.steam/steam", "~/.local/share/Steam",
              "~/Library/Application Support/Steam"}
SystemPaths == {"C:/Program Files (x86)/Steam", "C:/Program Files/Steam",
                "/usr/share/steam", "/Applications/Steam.app"}

\* C12 as stated: the result follows the order registry, user-specific,
\* system-wide: a system-wide candidate is returned only if no
\* user-specific candidate exists, and None only if no candidate exists.
C12_UserBeforeSystem ==
    located # "unset" =>
        /\ (located \in SystemPaths => fs.existing \cap UserPaths = {})
        /\ (located = "None" => fs.existing = {} /\ fs.registry = "missing")
        /\ (fs.platform = "windows" /\ fs.registry # "missing"
                => located = fs.registry)

\* the order in which the code probes the candidates of a platform
ProbeOrder(platform) ==
    IF platform = "windows" THEN WindowsPaths ELSE LinuxPaths \o MacPaths

\* C12 as amended: the registry value wins when the lookup succeeds;
\* otherwise the result is the first existing candidate in the order the
\* code lists them (Windows: the two Program Files directories, then
\* ~\Steam; elsewhere: ~/.steam/steam, ~/.local/share/Steam,
\* /usr/share/steam, ~/Library/Application Support/Steam,
\* /Applications/Steam.app), and None only if no candidate exists.
C12_FirstInProbeOrder ==
    located # "unset" =>
        IF fs.platform = "windows" /\ fs.registry # "missing"
        THEN located = fs.registry
        ELSE LET order == ProbeOrder(fs.platform)
             IN  /\ (located = "None" <=> fs.existing = {})
                 /\ (located # "None" =>
                        \E i \in DOMAIN order :
                            /\ order[i] = located
                            /\ located \in fs.existing
                            /\ \A j \in 1 .. (i - 1) :
                                   order[j] \notin fs.existing)

C12_Witness ==
    /\ located = "C:/Program Files/Steam"
    /\ fs.existing = {"C:/Program Files/Steam", "~/Steam"}

\* a direct get_download_info call read a content holding both markers
BothMarkersRead ==
    /\ DOMAIN disk # {}
    /\ ContentRead(disk.root, disk.found)
    /\ {"paused", "downloading"} \subseteq disk.found.markers

\* C13 as stated: a content with both a pause marker and a "downloading"
\* marker is extracted as paused.
C13_PauseWins ==
    BothMarkersRead => extracted.status = "paused"

\* C13 as amended: a content with both markers is extracted as
\* downloading, with the literal game "Unknown Game" and no app_id:
\* get_download_info tests the "downloading" marker only.
C13_DownloadingWins ==
    BothMarkersRead =>
        /\ extracted.status = "downloading"
        /\ extracted.game = [kind |-> "literal", text |-> "Unknown Game"]
        /\ DOMAIN extracted = {"status", "game"}

C13_Witness ==
    /\ BothMarkersRead
    /\ disk.found.games # <<>>
    /\ extracted.status = "downloading"

\* the states a tick may report when it has no artifact to read
ActiveStates == {"downloading", "paused", "completed"}

\* the status line of the current tick has been logged
TickReported ==
    /\ check_count > 0
    /\ report.tick = check_count
    /\ pc \in {"loop", "sleep", "Completed", "Cancelled"}
    /\ "body" \notin failed

\* C14: a tick that finds no config directory or no libraryfolders.vdf
\* never reports downloading, paused or completed, and the loop goes on.
C14_MissingArtifactIsNotActive ==
    (TickReported /\ artifact_missing) =>
        /\ report.state \notin ActiveStates
        /\ pc \in Running \cup {"Completed", "Cancelled"}

\* C15: a KeyboardInterrupt raised at any point of a running call, in the
\* foreground or while the loop runs on the thread of run_background, ends
\* the call Cancelled: never an uncaught exception, never a loop killed
\* without its terminal event.
C15_StopRequestCancels == interrupted # "no" => pc = "Cancelled"

\* C16: whatever the integers check_interval and total_duration, no
\* exception of the program leaves monitor_downloads once a tick has been
\* reported (a stop request aside).
C16_NoExceptionAfterFirstTick ==
    (pc = "Raised" /\ interrupted = "no") => emitted = 0

\* C17: after every calculate_speed call the retained sample is the
\* observation of that call, whichever path the call took, and it is one
\* byte count and one time.
C17_EveryCallStoresObservation ==
    calls >= 1 =>
        /\ last_bytes = arg.bytes
        /\ last_check_time = <<arg.time>>
        /\ Len(last_check_time) = 1

\* a later call took the clamped path: no time elapsed, bytes changed
C17_Witness ==
    /\ SecondOrLater
    /\ prev.bytes > 0
    /\ arg.time <= prev.time[1]
    /\ arg.bytes # prev.bytes
    /\ ~speed.divided

\* C18: steam_path is written by the entry of monitor_downloads only, once
\* per call and before any tick; no tick, stage, handler or sleep changes
\* it, also when a tick finds the config directory missing.
C18_RootWrittenOnce ==
    /\ [][(pc \in Running) => steam_path' = steam_path]_vars
    /\ [][(steam_path' # steam_path) =>
            runs' = runs + 1 /\ check_count' = 0 /\ emitted' = 0]_vars
    /\ [](pc \in Running => ~NoRoot(steam_path))

C18_Witness ==
    /\ check_count >= 2
    /\ pc = "report"
    /\ artifact_missing
    /\ download_info = [status |-> "no_config"]
    /\ steam_path = "~/.local/share/Steam"

\* the tick's merged snapshot has been built (line 286)
Merged == DOMAIN info # {} /\ DOMAIN download_info # {}

\* C19: the status of the merged snapshot is the status get_network_stats
\* returned, and the only keys get_download_info adds are game and app_id.
C19_OnlyGameAndAppId ==
    Merged =>
        /\ info.status = network_stats.status
        /\ (DOMAIN info) \ (DOMAIN network_stats) \subseteq {"game", "app_id"}

\* C19 as the code has it: the status of the merged snapshot is the status
\* get_network_stats returned, every key of network_stats keeps its value,
\* and get_download_info adds game, app_id and error, with its own values.
C19_GameAppIdAndError ==
    Merged =>
        /\ info.status = network_stats.status
        /\ \A k \in DOMAIN network_stats : info[k] = network_stats[k]
        /\ (DOMAIN info) \ (DOMAIN network_stats)
              \subseteq {"game", "app_id", "error"}
        /\ \A k \in (DOMAIN info) \ (DOMAIN network_stats) :
              k \in DOMAIN download_info /\ info[k] = download_info[k]

C19_Witness ==
    /\ Merged
    /\ download_info = ErrorInfo
    /\ "error" \in DOMAIN info
    /\ info.status = "paused"

\* C20: a call made while the retained byte count is 0, or no time is
\* retained, returns 0 without dividing and stores its observation; a
\* non-zero rate comes only from a non-zero retained byte count.
C20_ZeroBytesIsNoSample ==
    /\ (calls >= 1 /\ (prev.bytes = 0 \/ prev.time = NoneTime)) =>
            /\ RateIsZero(speed)
            /\ ~speed.divided
            /\ last_bytes = arg.bytes
    /\ (calls >= 1 /\ ~RateIsZero(speed)) => prev.bytes # 0

\* a sample with byte count 0 was retained, and the next call saw bytes
\* and elapsed time
C20_Witness ==
    /\ SecondOrLater
    /\ prev.bytes = 0
    /\ arg.bytes > 0
    /\ arg.time > prev.time[1]
    /\ RateIsZero(speed)

====
